---- MODULE Spec2Model ----
(***************************************************************************)
(* rig-fastembed: the adapter between the fastembed runtime and rig's      *)
(* embeddings::EmbeddingModel contract (src/rig-fastembed/src/lib.rs).     *)
(*                                                                         *)
(* State: the model objects (EmbeddingModel structs), the Arc-counted      *)
(* TextEmbedding handles they share, and the embed_texts calls in flight.  *)
(* The fastembed runtime is an external crate: its answers (try_new ok or  *)
(* failed, embed ok with some vectors or failed with some error) are       *)
(* chosen nondeterministically by the actions that call it.                *)
(***************************************************************************)
EXTENDS Integers, Sequences, FiniteSets, TLC

VARIABLES
    objs,       \* ObjIds -> EmbeddingModel struct (NoObj when the slot holds none)
    origin,     \* ObjIds -> how the struct in the slot was constructed (history)
    handles,    \* 1..MaxHandles -> the ArcInner<TextEmbedding> allocations
    calls,      \* CallIds -> the embed_texts call a caller thread is running
    panicked,   \* an unwrap() on a failed backend construction has panicked
    fetchLog,   \* the fetch_model_ndims lookups made directly by a caller (history)
    workload    \* the caller threads there are and the batches they submit

vars == <<objs, origin, handles, calls, panicked, fetchLog, workload>>

----------------------------------------------------------------------------
(* Bounds of the model *)

MaxLen == 2         \* length of the ordinary batches
MaxHandles == 2     \* Arc allocations there is room for
MaxLog == 2         \* direct registry lookups recorded

(* Program constant *)
MAX_DOCUMENTS == 1024

ObjIds == {"m1", "m2"}
CallIds == {"t1", "t2"}
HandleIds == 1..MaxHandles

Min(a, b) == IF a <= b THEN a ELSE b

----------------------------------------------------------------------------
(* fastembed::EmbeddingModel, the closed enumeration matched at 146-176 *)

Models384 ==
    {"AllMiniLML6V2", "AllMiniLML6V2Q", "AllMiniLML12V2", "AllMiniLML12V2Q",
     "BGESmallENV15", "BGESmallENV15Q", "ParaphraseMLMiniLML12V2Q",
     "ParaphraseMLMiniLML12V2", "MultilingualE5Small"}
Models512 == {"BGESmallZHV15", "ClipVitB32"}
Models768 ==
    {"BGEBaseENV15", "BGEBaseENV15Q", "NomicEmbedTextV1", "NomicEmbedTextV15",
     "NomicEmbedTextV15Q", "ParaphraseMLMpnetBaseV2", "MultilingualE5Base",
     "GTEBaseENV15", "GTEBaseENV15Q", "JinaEmbeddingsV2BaseCode"}
Models1024 ==
    {"BGELargeENV15", "BGELargeENV15Q", "MultilingualE5Large",
     "MxbaiEmbedLargeV1", "MxbaiEmbedLargeV1Q", "GTELargeENV15", "GTELargeENV15Q"}

FastembedModel == Models384 \cup Models512 \cup Models768 \cup Models1024

(* A registry that lost the arm of the large models and fell back to the   *)
(* "default embedding dimension of 0" the doc comment at line 28 speaks of. *)
fetch_model_ndims_default(model) ==
    CASE model \in Models384 -> 384
      [] model \in Models512 -> 512
      [] model \in Models768 -> 768
      [] OTHER -> 0

(* fetch_model_ndims: an exhaustive match, no default arm *)
fetch_model_ndims(model) ==
    CASE model \in Models384 -> 384
      [] model \in Models512 -> 512
      [] model \in Models768 -> 768
      [] model \in Models1024 -> 1024

----------------------------------------------------------------------------
(* The fastembed runtime, as seen from the adapter's call sites *)

(* Output width of the backend TextEmbedding::try_new(InitOptions::new(model)) *)
(* loads: the width on the runtime's model card, which the comment above   *)
(* fetch_model_ndims names as the table's origin.                          *)
RuntimeDim(model) ==
    CASE model \in Models384 -> 384
      [] model \in Models512 -> 512
      [] model \in Models768 -> 768
      [] model \in Models1024 -> 1024

(* Documents a caller embeds; the two texts of the doc example at 56-57 *)
Docs == {"Hello, world!", "Goodbye, world!"}

(* A Vec of floats is kept as its length, the width of its floats and the   *)
(* value its components carry (the runtime's numbers are opaque here).     *)
FloatVec(len, bits, val) == [len |-> len, bits |-> bits, val |-> val]

DocCode(doc) == IF doc = "Hello, world!" THEN 1 ELSE 2

(* The vectors an Ok answer of TextEmbedding::embed(texts, None) carries:   *)
(* count of them, each of the backend's width; the j-th is the embedding of *)
(* the j-th text while there is one.                                       *)
BackendOk(width, texts, count) ==
    [j \in 1..count |->
        FloatVec(width, 32, IF j <= Len(texts) THEN DocCode(texts[j]) ELSE 0)]

(* How many vectors the backend may answer n texts with: the parallel       *)
(* sequence its contract promises, one fewer, or one more.                 *)
ReturnedCounts(n) == {k \in {n - 1, n, n + 1} : k >= 0}

(* Backend errors: an error chain, outermost context first *)
BackendErrors ==
    { <<"Failed to run the ONNX session", "out of memory">>,
      <<"Tokenizer failed to encode the batch">> }

(* err.to_string(): Display of the error prints the outermost message only *)
to_string(err) == err[1]

(* Batches a caller submits: the empty batch and every batch of MaxLen      *)
(* documents; or one batch of MAX_DOCUMENTS + 1 documents.                 *)
OversizedBatch ==
    [i \in 1..(MAX_DOCUMENTS + 1) |->
        IF i % 2 = 1 THEN "Hello, world!" ELSE "Goodbye, world!"]
Batches == {<< >>} \cup [1..MaxLen -> Docs]

(* Inputs of the constructors *)
RequestedModels == {"AllMiniLML6V2", "BGESmallZHV15", "BGELargeENV15"}
DirectNdims == {0}              \* ndims a caller hands to EmbeddingModel::new
UserNdims == {512}              \* ndims a caller declares for a custom model
CustomWidths == {384, 512}      \* what the custom model really outputs
ModelInfos == {[model |-> "BGEBaseENV15", dim |-> 768]}

----------------------------------------------------------------------------
(* The EmbeddingModel struct and its Arc<TextEmbedding> *)

NoObj == [embedder |-> 0, model |-> "none", ndims |-> 0]
Live(o) == objs[o] # NoObj

(* Arc::new(backend): one allocation, strong count 1. The allocation keeps  *)
(* the backend's output width.                                             *)
ArcNew(width) == [st |-> "live", strong |-> 1, width |-> width]
FreeArc == [st |-> "free", strong |-> 0, width |-> 0]

(* Arc::clone: the same allocation, one more strong reference *)
ArcClone(arc) == [arc EXCEPT !.strong = @ + 1]

(* A drop that frees the backend whatever the count *)
ArcDropEager(arc) == [st |-> "free", strong |-> 0, width |-> 0]

(* Drop for Arc: the backend is destroyed when the last reference goes *)
ArcDrop(arc) ==
    IF arc.strong = 1
    THEN [st |-> "free", strong |-> 0, width |-> 0]
    ELSE [arc EXCEPT !.strong = @ - 1]

(* A constructor that ignores the caller's ndims *)
NewZeroDims(h, model, ndims) == [embedder |-> h, model |-> model, ndims |-> 0]

(* EmbeddingModel::new, the struct literal at 86-90 *)
New(h, model, ndims) == [embedder |-> h, model |-> model, ndims |-> ndims]

(* A user-defined constructor that consults the registry instead *)
NewFromUserDefinedRegistry(h, ndims, model_info) ==
    [embedder |-> h, model |-> model_info.model,
     ndims |-> fetch_model_ndims(model_info.model)]

(* EmbeddingModel::new_from_user_defined, the struct literal at 106-110 *)
NewFromUserDefined(h, ndims, model_info) ==
    [embedder |-> h, model |-> model_info.model, ndims |-> ndims]

(* EmbeddingModel::ndims *)
ndims(self) == self.ndims

(* The allocations free to be handed out by Arc::new *)
FreshHandles == {h \in HandleIds : handles[h].st = "free"}
NextHandle == CHOOSE h \in FreshHandles : \A g \in FreshHandles : h <= g

----------------------------------------------------------------------------
(* embed_texts, step by step *)

(* documents.into_iter().collect(): the documents, in iteration order *)
Collect(documents) == [i \in 1..Len(documents) |-> documents[i]]

(* An adapter that cuts the batch to the provider's MAX_DOCUMENTS *)
EmbedArgumentCapped(documents_as_strings) ==
    SubSeq(documents_as_strings, 1, Min(Len(documents_as_strings), MAX_DOCUMENTS))

(* documents_as_strings.clone(), the argument of the backend call *)
EmbedArgument(documents_as_strings) ==
    [i \in 1..Len(documents_as_strings) |-> documents_as_strings[i]]

(* An error translation that drops the backend's text *)
MapErrBlank(err) == [kind |-> "ProviderError", msg |-> ""]

(* map_err(|err| EmbeddingError::ProviderError(err.to_string())) *)
MapErr(err) == [kind |-> "ProviderError", msg |-> to_string(err)]

(* A conversion that loses the last component *)
ToF64Short(embedding) == FloatVec(embedding.len - 1, 64, embedding.val)

(* embedding.into_iter().map(|f| f as f64).collect() *)
ToF64(embedding) == FloatVec(embedding.len, 64, embedding.val)

(* A zip that keeps going while either side has elements *)
ZipLongest(documents_as_strings, documents_as_vec) ==
    [i \in 1..(IF Len(documents_as_strings) >= Len(documents_as_vec)
               THEN Len(documents_as_strings) ELSE Len(documents_as_vec)) |->
        [document |-> IF i <= Len(documents_as_strings)
                      THEN documents_as_strings[i] ELSE "",
         vec |-> IF i <= Len(documents_as_vec)
                 THEN ToF64(documents_as_vec[i]) ELSE FloatVec(0, 64, 0)]]

(* documents_as_strings.into_iter().zip(documents_as_vec).map(..).collect(): *)
(* zip stops at the shorter of the two sequences                           *)
ZipEmbeddings(documents_as_strings, documents_as_vec) ==
    [i \in 1..Min(Len(documents_as_strings), Len(documents_as_vec)) |->
        [document |-> documents_as_strings[i],
         vec |-> ToF64(documents_as_vec[i])]]

NoErr == [kind |-> "none", msg |-> ""]
NoRet == [tag |-> "none", embeddings |-> << >>, err |-> NoErr]
Ok(docs) == [tag |-> "Ok", embeddings |-> docs, err |-> NoErr]
Err(e) == [tag |-> "Err", embeddings |-> << >>, err |-> e]

IdleCall ==
    [pc |-> "idle", self |-> "none", input |-> << >>,
     documents_as_strings |-> << >>, documents_as_vec |-> << >>,
     embedLog |-> << >>, backend |-> "none", count |-> 0, backendErr |-> << >>,
     ret |-> NoRet]

(* Fields of a call: pc, the line the call has reached; self, the struct it *)
(* borrows; documents_as_strings, documents_as_vec and ret, the locals and *)
(* the return value of embed_texts. History: input, the documents as the   *)
(* caller passed them; embedLog, the arguments of the backend calls made;  *)
(* backend, count, backendErr, what the backend answered.                  *)

NoOrigin == [via |-> "none", model |-> "none", ndims |-> 0, handle |-> 0, width |-> 0]

(* &self is borrowed for as long as the call's future lives *)
Borrowed(o) == \E c \in CallIds : calls[c].pc # "idle" /\ calls[c].self = o

----------------------------------------------------------------------------
Init ==
    /\ objs = [o \in ObjIds |-> NoObj]
    /\ origin = [o \in ObjIds |-> NoOrigin]
    /\ handles = [h \in HandleIds |-> FreeArc]
    /\ calls = [c \in CallIds |-> IdleCall]
    /\ panicked = FALSE
    /\ fetchLog = << >>
    /\ workload = [callers |-> {"t1"}, batches |-> Batches \cup {OversizedBatch}]

(* Every caller thread at work: embed_texts calls run concurrently *)
InitConcurrent ==
    /\ objs = [o \in ObjIds |-> NoObj]
    /\ origin = [o \in ObjIds |-> NoOrigin]
    /\ handles = [h \in HandleIds |-> FreeArc]
    /\ calls = [c \in CallIds |-> IdleCall]
    /\ panicked = FALSE
    /\ fetchLog = << >>
    /\ workload = [callers |-> CallIds, batches |-> Batches]

(* try_new(..).unwrap() on Err: the panic leaves before Arc::new and before *)
(* the struct literal; nothing is returned.                                *)
Panic ==
    /\ panicked' = TRUE
    /\ UNCHANGED <<objs, origin, handles, calls, fetchLog, workload>>

(* The constructor, asked for model and nd, returned obj, which holds the   *)
(* fresh Arc of a backend of the given width, into the caller's slot o.    *)
Built(o, via, model, nd, obj, width) ==
    /\ objs' = [objs EXCEPT ![o] = obj]
    /\ handles' = [handles EXCEPT ![obj.embedder] = ArcNew(width)]
    /\ origin' = [origin EXCEPT ![o] =
            [via |-> via, model |-> model, ndims |-> nd,
             handle |-> obj.embedder, width |-> width]]
    /\ UNCHANGED <<calls, panicked, fetchLog, workload>>

(* Client::embedding_model(&model): fetch_model_ndims, then EmbeddingModel::new *)
ClientEmbeddingModel(o, model) ==
    /\ ~panicked /\ ~Live(o) /\ FreshHandles # {}
    /\ LET nd == fetch_model_ndims(model) IN
       \/ Built(o, "client", model, nd, New(NextHandle, model, nd), RuntimeDim(model))
       \/ Panic

(* EmbeddingModel::new(&model, ndims) called by the user of the crate *)
EmbeddingModelNew(o, model, nd) ==
    /\ ~panicked /\ ~Live(o) /\ FreshHandles # {}
    /\ \/ Built(o, "new", model, nd, New(NextHandle, model, nd), RuntimeDim(model))
       \/ Panic

(* EmbeddingModel::new_from_user_defined(custom, ndims, &model_info); width *)
(* is what the custom model outputs, which the constructor never reads.    *)
EmbeddingModelNewFromUserDefined(o, width, nd, model_info) ==
    /\ ~panicked /\ ~Live(o) /\ FreshHandles # {}
    /\ \/ Built(o, "user", model_info.model, nd,
                NewFromUserDefined(NextHandle, nd, model_info), width)
       \/ Panic

(* #[derive(Clone)]: model and ndims copied, the Arc cloned *)
Clone(src, dst) ==
    /\ ~panicked /\ Live(src) /\ ~Live(dst)
    /\ objs' = [objs EXCEPT ![dst] = objs[src]]
    /\ origin' = [origin EXCEPT ![dst] = origin[src]]
    /\ handles' = [handles EXCEPT ![objs[src].embedder] = ArcClone(@)]
    /\ UNCHANGED <<calls, panicked, fetchLog, workload>>

(* The struct goes out of scope: its Arc is dropped *)
Drop(o) ==
    /\ ~panicked /\ Live(o) /\ ~Borrowed(o)
    /\ objs' = [objs EXCEPT ![o] = NoObj]
    /\ origin' = [origin EXCEPT ![o] = NoOrigin]
    /\ handles' = [handles EXCEPT ![objs[o].embedder] = ArcDrop(@)]
    /\ UNCHANGED <<calls, panicked, fetchLog, workload>>

(* embed_texts is entered: line 125 *)
EmbedTextsCollect(c, o, documents) ==
    /\ ~panicked /\ Live(o) /\ calls[c].pc = "idle"
    /\ calls' = [calls EXCEPT ![c] =
            [IdleCall EXCEPT !.pc = "collected", !.self = o, !.input = documents,
                             !.documents_as_strings = Collect(documents)]]
    /\ UNCHANGED <<objs, origin, handles, panicked, fetchLog, workload>>

(* self.embedder.embed(documents_as_strings.clone(), None).map_err(..)?:    *)
(* 127-130. On Err the ? returns the translated error at once.             *)
EmbedTextsBackend(c) ==
    /\ ~panicked /\ calls[c].pc = "collected"
    /\ LET call == calls[c]
           arg == EmbedArgument(call.documents_as_strings)
           width == handles[objs[call.self].embedder].width
       IN  \/ \E count \in ReturnedCounts(Len(arg)) :
                calls' = [calls EXCEPT ![c] =
                    [call EXCEPT !.pc = "embedded",
                                 !.embedLog = Append(@, arg),
                                 !.backend = "Ok",
                                 !.count = count,
                                 !.documents_as_vec = BackendOk(width, arg, count)]]
           \/ \E err \in BackendErrors :
                calls' = [calls EXCEPT ![c] =
                    [call EXCEPT !.pc = "returned",
                                 !.embedLog = Append(@, arg),
                                 !.backend = "Err",
                                 !.backendErr = err,
                                 !.documents_as_strings = << >>,
                                 !.ret = Err(MapErr(err))]]
    /\ UNCHANGED <<objs, origin, handles, panicked, fetchLog, workload>>

(* 132-141: zip, map, collect, Ok(docs); both vectors are moved into the zip *)
EmbedTextsZip(c) ==
    /\ ~panicked /\ calls[c].pc = "embedded"
    /\ calls' = [calls EXCEPT ![c] =
            [@ EXCEPT !.pc = "returned",
                      !.documents_as_strings = << >>,
                      !.documents_as_vec = << >>,
                      !.ret = Ok(ZipEmbeddings(calls[c].documents_as_strings,
                                               calls[c].documents_as_vec))]]
    /\ UNCHANGED <<objs, origin, handles, panicked, fetchLog, workload>>

(* The caller takes the result and the call's future is dropped *)
EmbedTextsDone(c) ==
    /\ ~panicked /\ calls[c].pc = "returned"
    /\ calls' = [calls EXCEPT ![c] = IdleCall]
    /\ UNCHANGED <<objs, origin, handles, panicked, fetchLog, workload>>

Next ==
    \/ \E o \in ObjIds, model \in RequestedModels : ClientEmbeddingModel(o, model)
    \/ \E o \in ObjIds, model \in RequestedModels, nd \in DirectNdims :
            EmbeddingModelNew(o, model, nd)
    \/ \E o \in ObjIds, width \in CustomWidths, nd \in UserNdims, info \in ModelInfos :
            EmbeddingModelNewFromUserDefined(o, width, nd, info)
    \/ \E src, dst \in ObjIds : Clone(src, dst)
    \/ \E o \in ObjIds : Drop(o)
    \/ \E c \in workload.callers, o \in ObjIds, documents \in workload.batches :
            EmbedTextsCollect(c, o, documents)
    \/ \E c \in CallIds : EmbedTextsBackend(c)
    \/ \E c \in CallIds : EmbedTextsZip(c)
    \/ \E c \in CallIds : EmbedTextsDone(c)

Spec == Init /\ [][Next]_vars

SpecConcurrent == InitConcurrent /\ [][Next]_vars

----------------------------------------------------------------------------
(* The registry alone: a caller looks identifiers up, one after another *)

FetchModelNdims(model) ==
    /\ Len(fetchLog) < MaxLog
    /\ fetchLog' = Append(fetchLog, [model |-> model, ndims |-> fetch_model_ndims(model)])
    /\ UNCHANGED <<objs, origin, handles, calls, panicked, workload>>

RegistryNext == \E model \in FastembedModel : FetchModelNdims(model)

SpecRegistry == Init /\ [][RegistryNext]_vars

----------------------------------------------------------------------------
(* Properties *)

Returned(c) == calls[c].pc = "returned"
ReturnedOk(c) == Returned(c) /\ calls[c].ret.tag = "Ok"
Self(c) == objs[calls[c].self]
Documents(embeddings) == [i \in 1..Len(embeddings) |-> embeddings[i].document]

(* C1: every successful embed_texts call returns exactly as many results as *)
(* it was given documents, the i-th result holding the i-th document,      *)
(* whatever number of vectors the backend answered with.                   *)
C1_ExactlyNInOrder ==
    \A c \in CallIds :
        ReturnedOk(c) =>
            /\ Len(calls[c].ret.embeddings) = Len(calls[c].input)
            /\ \A i \in 1..Len(calls[c].input) :
                    calls[c].ret.embeddings[i].document = calls[c].input[i]

(* C2, as claimed: every vector of a successful call has length ndims() of  *)
(* the model object the call was made on, however the object was built.    *)
C2_VecLenIsNdims ==
    \A c \in CallIds :
        ReturnedOk(c) =>
            \A i \in 1..Len(calls[c].ret.embeddings) :
                calls[c].ret.embeddings[i].vec.len = ndims(Self(c))

(* C2, amended: every vector of a successful call is an f64 vector as long  *)
(* as the backend's output is wide; that is ndims() for an object built by *)
(* Client::embedding_model, and whenever the ndims given to a constructor  *)
(* is the backend's width.                                                 *)
C2_VecLenIsBackendWidth ==
    \A c \in CallIds :
        ReturnedOk(c) =>
            \A i \in 1..Len(calls[c].ret.embeddings) :
                LET vec == calls[c].ret.embeddings[i].vec IN
                /\ vec.bits = 64
                /\ vec.len = handles[Self(c).embedder].width
                /\ origin[calls[c].self].via = "client" => vec.len = ndims(Self(c))
                /\ origin[calls[c].self].ndims = origin[calls[c].self].width
                        => vec.len = ndims(Self(c))

(* A successful call on a user-defined model whose declared ndims is not    *)
(* what the custom model outputs has returned a result.                    *)
C2_Witness ==
    \E c \in CallIds :
        /\ ReturnedOk(c) /\ Len(calls[c].ret.embeddings) > 0
        /\ origin[calls[c].self].via = "user"
        /\ origin[calls[c].self].width # ndims(Self(c))

(* C3: a call whose backend embed failed has returned ProviderError with    *)
(* the backend error's text, which is not empty, and carries no embedding. *)
C3_BackendFailureIsProviderError ==
    \A c \in CallIds :
        calls[c].backend = "Err" =>
            /\ Returned(c)
            /\ calls[c].ret.tag = "Err"
            /\ calls[c].ret.err.kind = "ProviderError"
            /\ calls[c].ret.err.msg = Head(calls[c].backendErr)
            /\ calls[c].ret.err.msg # ""
            /\ calls[c].ret.embeddings = << >>
            /\ calls[c].documents_as_vec = << >>

(* The backend failed on a batch of several documents *)
C3_Witness ==
    \E c \in CallIds :
        /\ calls[c].backend = "Err" /\ Len(calls[c].input) > 1
        /\ Len(calls[c].backendErr) > 1

C5_EmptyAlwaysOk ==
    \A c \in CallIds :
        (Returned(c) /\ calls[c].input = << >>) => calls[c].ret = Ok(<< >>)

(* C5, amended: embed_texts of no documents hands the empty batch to the    *)
(* backend; it returns Ok of no results when that call succeeds, whatever  *)
(* the backend answered with, and the provider error when it fails.        *)
C5_EmptyOkWhenBackendOk ==
    \A c \in CallIds :
        (Returned(c) /\ calls[c].input = << >>) =>
            /\ calls[c].embedLog = << << >> >>
            /\ calls[c].backend = "Ok" => calls[c].ret = Ok(<< >>)
            /\ calls[c].backend = "Err" => calls[c].ret.tag = "Err"

(* The empty batch was answered with a vector all the same *)
C5_Witness ==
    \E c \in CallIds :
        /\ Returned(c) /\ calls[c].input = << >>
        /\ calls[c].backend = "Ok" /\ calls[c].count = 1

(* C6: a model object built by new_from_user_defined, and every clone of    *)
(* it, reports the ndims the caller gave and carries the identifier of the *)
(* caller's model_info, in every state, whatever the custom model outputs  *)
(* and whatever the registry holds for that identifier.                    *)
C6_UserDefinedNdimsKept ==
    \A o \in ObjIds :
        origin[o].via = "user" =>
            /\ Live(o)
            /\ ndims(objs[o]) = origin[o].ndims
            /\ ndims(objs[o]) \in UserNdims
            /\ objs[o].model = origin[o].model
            /\ objs[o].model \in {info.model : info \in ModelInfos}

(* A call has returned vectors of another width than the declared ndims,    *)
(* which is not the registry's value for the identifier either.            *)
C6_Witness ==
    \E c \in CallIds :
        /\ ReturnedOk(c) /\ Len(calls[c].ret.embeddings) > 0
        /\ origin[calls[c].self].via = "user"
        /\ calls[c].ret.embeddings[1].vec.len # ndims(Self(c))
        /\ fetch_model_ndims(Self(c).model) # ndims(Self(c))

(* C7: the step in which a backend construction fails panics and hands no   *)
(* model object and no handle to anyone, and nothing runs after it; an     *)
(* object built by Client::embedding_model carries the identifier asked    *)
(* for and the registry's ndims for it, on a live backend.                 *)
C7_PanicOrRequestedModel ==
    /\ [](\A o \in ObjIds :
            origin[o].via = "client" =>
                /\ Live(o)
                /\ objs[o].model = origin[o].model
                /\ ndims(objs[o]) = fetch_model_ndims(origin[o].model)
                /\ handles[objs[o].embedder].st = "live")
    /\ [][(panicked' /\ ~panicked) =>
            (objs' = objs /\ handles' = handles /\ origin' = origin /\ calls' = calls)]_vars
    /\ [][~panicked]_vars

(* A construction has panicked after an earlier one had succeeded *)
C7_Witness ==
    /\ panicked
    /\ \E o \in ObjIds : origin[o].via = "client" /\ objs[o].model = "BGELargeENV15"

(* C8: every allocation's strong count is the number of model objects that  *)
(* hold it, the backend is alive exactly while that number is not zero, an *)
(* object holds the allocation made when it, or the object it was cloned   *)
(* from, was constructed, and objects holding one allocation agree on      *)
(* model and ndims.                                                        *)
C8_SharedHandleCounted ==
    /\ \A h \in HandleIds :
        /\ handles[h].strong = Cardinality({o \in ObjIds : objs[o].embedder = h})
        /\ handles[h].st = "live" <=> handles[h].strong > 0
    /\ \A o \in ObjIds :
        Live(o) =>
            /\ objs[o].embedder \in HandleIds
            /\ handles[objs[o].embedder].st = "live"
            /\ objs[o].embedder = origin[o].handle
            /\ handles[objs[o].embedder].width = origin[o].width
    /\ \A o1, o2 \in ObjIds :
        (Live(o1) /\ objs[o1].embedder = objs[o2].embedder) => objs[o1] = objs[o2]
    /\ Cardinality({h \in HandleIds : handles[h].st = "live"})
            = Cardinality({origin[o].handle : o \in {x \in ObjIds : Live(x)}})

(* Two model objects share one backend *)
C8_Witness ==
    \E o1, o2 \in ObjIds :
        /\ o1 # o2 /\ Live(o1) /\ objs[o1] = objs[o2]
        /\ handles[objs[o1].embedder].strong = 2
        /\ Cardinality({h \in HandleIds : handles[h].st = "live"}) = 1

(* C9: a call makes no backend call before line 127 and exactly one from    *)
(* there on, whose argument is the caller's documents, all of them, in     *)
(* their order, also when there are more than MAX_DOCUMENTS of them and    *)
(* also when the backend fails.                                            *)
C9_OneBackendCallWholeBatch ==
    \A c \in CallIds :
        /\ calls[c].pc \in {"idle", "collected"} => calls[c].embedLog = << >>
        /\ calls[c].pc \in {"embedded", "returned"} =>
                calls[c].embedLog = << calls[c].input >>

(* A batch of more than MAX_DOCUMENTS documents has been embedded *)
C9_Witness ==
    \E c \in CallIds :
        /\ ReturnedOk(c) /\ Len(calls[c].input) > MAX_DOCUMENTS
        /\ Len(calls[c].ret.embeddings) = Len(calls[c].input)

(* Every call that has succeeded holds results for exactly its own         *)
(* documents in its own order, each vector the backend's answer to that    *)
(* document.                                                               *)
C10_OwnDocumentsInOrder ==
    \A c \in CallIds :
        ReturnedOk(c) =>
            /\ Documents(calls[c].ret.embeddings) = calls[c].input
            /\ \A i \in 1..Len(calls[c].ret.embeddings) :
                    calls[c].ret.embeddings[i].vec =
                        FloatVec(handles[Self(c).embedder].width, 64,
                                 DocCode(calls[c].input[i]))

(* C10: under every interleaving of concurrent calls, every call that       *)
(* succeeds returns results for exactly its own documents in its own       *)
(* order, and no step of a call changes a model object's handle, model or  *)
(* ndims.                                                                  *)
C10_ConcurrentCallsIsolated ==
    /\ []C10_OwnDocumentsInOrder
    /\ [][calls' # calls => (objs' = objs /\ handles' = handles)]_vars

====
